---------------------------- MODULE Spec2Model ----------------------------
(***************************************************************************)
(* A state-machine model of reinforce() in src/reinforce.py: the REINFORCE *)
(* training loop, its exploration schedule, its episode accumulators and   *)
(* its early-stopping protocol (a nested, non-training call on val_env).   *)
(*                                                                         *)
(* The call stack is explicit: stack[1] is the caller's invocation and     *)
(* stack[2], when present, is the nested evaluation invocation started at  *)
(* line 122.  Collaborators (env, val_env, act, the optimizer, the policy  *)
(* network) are modelled by what reinforce() observes of them.             *)
(*                                                                         *)
(* Exploration rates are fixed-point numbers: the integer x stands for     *)
(* x / RateOne; a decay factor is a pair <<num, den>>.                     *)
(***************************************************************************)
EXTENDS Integers, Sequences, FiniteSets, TLC

VARIABLES
    stack,        \* the invocations of reinforce() in progress, outermost first
    envScript,    \* per environment: the reward sequences of its episodes
    envPos,       \* per environment: env.step calls since the last reset
    envEpisode,   \* per environment: episodes it has ended (done=True signalled)
    envResets,    \* per environment: env.reset calls so far
    envSteps,     \* per environment: env.step calls so far
    policy_mode,  \* policy_network's mode: "train" or "eval"
    params,       \* policy parameter version: optimizer steps applied so far
    params_nan,   \* TRUE once a NaN loss has been back-propagated
    printed,      \* progress reports printed so far
    failure       \* "none", or the exception that ended the run

vars == <<stack, envScript, envPos, envEpisode, envResets, envSteps,
          policy_mode, params, params_nan, printed, failure>>

-----------------------------------------------------------------------------
(* Bounds of the model *)

MaxEpisodes == 3      \* largest num_episodes of the outer call
MaxLen == 3           \* largest max_episode_length of the outer call
MaxK == 4             \* longest episode of env: done on step k <= MaxK
MaxEvals == 2         \* scripted validation episodes (the last one repeats)

(* Program constants *)

INT32_MAX == 2147483647     \* np.iinfo(np.int32).max, default max_episode_length
DefaultFreq == 100          \* default print_freq and early_stopping_freq
RateOne == 8                \* fixed-point 1.0 (default exploration_rate=1)

Envs == {"env", "val_env"}
Rewards == {1, 2}
ValRewards == {1, 2}
None == 0                   \* Python's None: no hidden state (act's results are >= 1), no val_env

DefaultDecay == <<9999, 10000>>   \* exploration_decay = 1 - 1e-4

-----------------------------------------------------------------------------
(* Pure helpers *)

RECURSIVE SumSeq(_)
SumSeq(s) == IF s = <<>> THEN 0 ELSE Head(s) + SumSeq(Tail(s))

Max(a, b) == IF a >= b THEN a ELSE b

Min(a, b) == IF a <= b THEN a ELSE b

Last(s) == s[Len(s)]

SeqsUpTo(S, n) == UNION {[1..m -> S] : m \in 0..n}

(* exploration_rate * exploration_decay, truncated to the fixed-point grid *)
Decayed(rate, decay) == (rate * decay[1]) \div decay[2]

(* A decay that forgets the floor at exploration_min *)
DecayRate_NoFloor(rate, decay, min) == Decayed(rate, decay)

(* A decay that divides by the factor instead of multiplying by it *)
DecayRate_Inverse(rate, decay, min) == Max((rate * decay[2]) \div decay[1], min)

(* line 97: exploration_rate = max(exploration_rate*exploration_decay, exploration_min) *)
DecayRate(rate, decay, min) == Max(Decayed(rate, decay), min)

(* The environment: the reward sequence of the episode in progress; the     *)
(* episode ends (done=True) on the step after its last reward.              *)
CurrentEpisode(e) ==
    envScript[e][Min(envEpisode[e] + 1, Len(envScript[e]))]

(* env.step(action): done is signalled on step Len(episode)+1 *)
StepDone(e) == envPos[e] + 1 > Len(CurrentEpisode(e))

StepReward(e) == IF StepDone(e) THEN 0 ELSE CurrentEpisode(e)[envPos[e] + 1]

(* get_policy_loss, lines 18-24: torch.stack raises on an empty list; the   *)
(* unbiased std of a single reward is NaN; otherwise the loss is finite.    *)
get_policy_loss(rewards, log_probs) ==
    IF Len(log_probs) = 0 THEN "RuntimeError"
    ELSE IF Len(rewards) = 1 THEN "nan"
    ELSE "finite"

-----------------------------------------------------------------------------
(* An invocation of reinforce(): the state after lines 57-79 *)

(* lines 67-69: a non-training call overrides exploration_min with 0 and    *)
(* sets exploration_rate to it                                              *)
EffectiveMin(train, exploration_min) == IF train THEN exploration_min ELSE 0

(* A non-training call that keeps the configured initial rate *)
EffectiveRate_NotForced(train, exploration_rate, exploration_min) == exploration_rate

EffectiveRate(train, exploration_rate, exploration_min) ==
    IF train THEN exploration_rate ELSE EffectiveMin(train, exploration_min)

(* lines 67-72: policy_network.eval() or policy_network.train() *)
ModeFor(train) == IF train THEN "train" ELSE "eval"

NewFrame(a) ==
    [ env |-> a.env,
      val_env |-> a.val_env,
      train |-> a.train,
      arg_exploration_rate |-> a.exploration_rate,
      arg_exploration_min |-> a.exploration_min,
      exploration_rate |-> EffectiveRate(a.train, a.exploration_rate, a.exploration_min),
      exploration_min |-> EffectiveMin(a.train, a.exploration_min),
      exploration_decay |-> a.exploration_decay,
      num_episodes |-> a.num_episodes,
      max_episode_length |-> a.max_episode_length,
      print_res |-> a.print_res,
      print_freq |-> a.print_freq,
      early_stopping |-> a.early_stopping,
      early_stopping_freq |-> a.early_stopping_freq,
      n |-> 0,
      i |-> 0,
      rewards |-> <<>>,
      actions |-> <<>>,
      log_probs |-> <<>>,
      hx |-> None,
      done |-> FALSE,
      total_rewards |-> <<>>,
      total_actions |-> <<>>,
      reward_history |-> <<>>,
      action_history |-> <<>>,
      validation_rewards |-> <<>>,
      completed_episodes_counter |-> 0,
      val_reward |-> <<>>,
      rates |-> <<>>,
      hx_passed |-> <<>>,
      iter_steps |-> 0,
      opt_steps |-> 0,
      evaluations |-> 0,
      params0 |-> 0,
      stopped_early |-> FALSE,
      pc |-> "outer" ]

(* line 122: the arguments of the nested evaluation call; the others take   *)
(* the defaults of line 27                                                  *)
EvalArgs(f) ==
    [ env |-> f.val_env,
      val_env |-> None,
      train |-> FALSE,
      exploration_rate |-> 0,
      exploration_min |-> 0,
      exploration_decay |-> DefaultDecay,
      num_episodes |-> 1,
      max_episode_length |-> INT32_MAX,
      print_res |-> FALSE,
      print_freq |-> DefaultFreq,
      early_stopping |-> FALSE,
      early_stopping_freq |-> DefaultFreq ]

Depth == Len(stack)

Top == stack[Depth]

Running == failure = "none" /\ Depth >= 1 /\ Top.pc # "returned"

SetTop(f) == [stack EXCEPT ![Depth] = f]

-----------------------------------------------------------------------------
(* Initial states: the outer call has executed lines 57-79 *)

Decays == {<<1, 2>>, <<3, 4>>, <<1, 1>>}   \* exploration_decay 0.5, 0.75 and 1

ExplorationRates == {0, 4, 8}            \* exploration_rate 0, 0.5 and 1

ExplorationMins == {0, 4}                \* exploration_min 0 and 0.5

Configs ==
    [ env : {"env"},
      val_env : {"val_env"},
      train : BOOLEAN,
      exploration_rate : {RateOne},
      exploration_min : {0},
      exploration_decay : {<<1, 2>>},
      num_episodes : 1..MaxEpisodes,
      max_episode_length : 1..MaxLen,
      print_res : {TRUE},
      print_freq : {DefaultFreq},
      early_stopping : BOOLEAN,
      early_stopping_freq : {1, 2} ]

ValScripts == { [j \in 1..MaxEvals |-> <<v[j]>>] : v \in [1..MaxEvals -> ValRewards] }

InitWith(a, script, vscript) ==
    /\ stack = <<NewFrame(a)>>
    /\ envScript = [e \in Envs |-> IF e = "env" THEN <<script>> ELSE vscript]
    /\ envPos = [e \in Envs |-> 0]
    /\ envEpisode = [e \in Envs |-> 0]
    /\ envResets = [e \in Envs |-> IF e = a.env THEN 2 ELSE 0]
    /\ envSteps = [e \in Envs |-> 0]
    /\ policy_mode = ModeFor(a.train)
    /\ params = 0
    /\ params_nan = FALSE
    /\ printed = 0
    /\ failure = "none"

Init ==
    \E a \in Configs, script \in SeqsUpTo(Rewards, MaxK - 1), vscript \in ValScripts :
        /\ (~a.early_stopping => a.early_stopping_freq = 1 /\ vscript = [j \in 1..MaxEvals |-> <<1>>])
        /\ InitWith(a, script, vscript)

-----------------------------------------------------------------------------
(* Actions *)

(* An outer loop that runs one iteration too many *)
OuterIter_OffByOne ==
    /\ Running /\ Top.pc = "outer"
    /\ Top.n <= Top.num_episodes
    /\ stack' = SetTop([Top EXCEPT !.rewards = <<>>, !.actions = <<>>,
                                   !.log_probs = <<>>, !.hx = None,
                                   !.i = 0, !.iter_steps = 0, !.pc = "inner"])
    /\ UNCHANGED <<envScript, envPos, envEpisode, envResets, envSteps,
                   policy_mode, params, params_nan, printed, failure>>

(* An outer loop that carries the hidden state over to the next iteration *)
OuterIter_KeepHx ==
    /\ Running /\ Top.pc = "outer"
    /\ Top.n < Top.num_episodes
    /\ stack' = SetTop([Top EXCEPT !.rewards = <<>>, !.actions = <<>>,
                                   !.log_probs = <<>>,
                                   !.i = 0, !.iter_steps = 0, !.pc = "inner"])
    /\ UNCHANGED <<envScript, envPos, envEpisode, envResets, envSteps,
                   policy_mode, params, params_nan, printed, failure>>

(* lines 81-85: the outer loop starts iteration n *)
OuterIter ==
    /\ Running /\ Top.pc = "outer"
    /\ Top.n < Top.num_episodes
    /\ stack' = SetTop([Top EXCEPT !.rewards = <<>>, !.actions = <<>>,
                                   !.log_probs = <<>>, !.hx = None,
                                   !.i = 0, !.iter_steps = 0, !.pc = "inner"])
    /\ UNCHANGED <<envScript, envPos, envEpisode, envResets, envSteps,
                   policy_mode, params, params_nan, printed, failure>>

(* lines 94-97: what a step that is not terminal records *)
Record(f, action, reward, hx) ==
    [f EXCEPT !.actions = Append(@, action),
              !.rewards = Append(@, reward),
              !.log_probs = Append(@, action),
              !.exploration_rate = DecayRate(@, f.exploration_decay, f.exploration_min),
              !.hx = hx,
              !.done = FALSE,
              !.i = @ + 1,
              !.iter_steps = @ + 1,
              !.rates = Append(@, f.exploration_rate),
              !.hx_passed = Append(@, f.hx)]

(* A terminal step that is recorded before the loop is left *)
Break_Records(f, hx) ==
    [f EXCEPT !.actions = Append(@, hx),
              !.rewards = Append(@, 0),
              !.log_probs = Append(@, hx),
              !.hx = hx,
              !.done = TRUE,
              !.iter_steps = @ + 1,
              !.rates = Append(@, f.exploration_rate),
              !.hx_passed = Append(@, f.hx),
              !.pc = "after"]

(* A terminal step that decays the exploration rate before the loop is left *)
Break_Decays(f, hx) ==
    [f EXCEPT !.hx = hx,
              !.done = TRUE,
              !.exploration_rate = DecayRate(@, f.exploration_decay, f.exploration_min),
              !.iter_steps = @ + 1,
              !.rates = Append(@, f.exploration_rate),
              !.hx_passed = Append(@, f.hx),
              !.pc = "after"]

(* lines 91-92: a terminal step breaks out of the inner loop, recording nothing *)
Break(f, hx) ==
    [f EXCEPT !.hx = hx,
              !.done = TRUE,
              !.iter_steps = @ + 1,
              !.rates = Append(@, f.exploration_rate),
              !.hx_passed = Append(@, f.hx),
              !.pc = "after"]

(* line 88: what the call of act returns.  reinforce() never inspects an     *)
(* action, a log-probability or a hidden state, it only stores and passes   *)
(* them on, so each is named by the index of the act call that made it: the *)
(* values of different calls are all distinct.                              *)
ActResult(f) == Len(f.rates) + 1

(* lines 87-97: one pass of the inner loop: act, env.step, then break or record *)
InnerStep ==
    /\ Running /\ Top.pc = "inner"
    /\ Top.i < Top.max_episode_length
    /\ LET e == Top.env
           action == ActResult(Top)
           hx == ActResult(Top)
       IN  /\ stack' = SetTop(IF StepDone(e) THEN Break(Top, hx)
                              ELSE Record(Top, action, StepReward(e), hx))
           /\ envPos' = [envPos EXCEPT ![e] = @ + 1]
           /\ envSteps' = [envSteps EXCEPT ![e] = @ + 1]
           /\ envEpisode' = [envEpisode EXCEPT ![e] = IF StepDone(e) THEN @ + 1 ELSE @]
    /\ UNCHANGED <<envScript, envResets, policy_mode, params, params_nan, printed, failure>>

(* line 87: the inner loop is exhausted after max_episode_length steps *)
InnerExhausted ==
    /\ Running /\ Top.pc = "inner"
    /\ Top.i >= Top.max_episode_length
    /\ stack' = SetTop([Top EXCEPT !.pc = "after"])
    /\ UNCHANGED <<envScript, envPos, envEpisode, envResets, envSteps,
                   policy_mode, params, params_nan, printed, failure>>

(* An optimization step on every outer iteration, training or not *)
ShouldOptimize_Always(f) == TRUE

(* line 99: the guard of the loss computation and optimization step *)
ShouldOptimize(f) == f.train

(* lines 99-101: get_policy_loss and optimize, when training *)
TrainStep ==
    /\ Running /\ Top.pc = "after"
    /\ LET loss == get_policy_loss(Top.rewards, Top.log_probs)
       IN  IF ~ShouldOptimize(Top)
           THEN /\ stack' = SetTop([Top EXCEPT !.pc = "accumulate"])
                /\ UNCHANGED <<params, params_nan, failure>>
           ELSE IF loss = "RuntimeError"
           THEN /\ failure' = "RuntimeError"
                /\ UNCHANGED <<stack, params, params_nan>>
           ELSE /\ stack' = SetTop([Top EXCEPT !.pc = "accumulate", !.opt_steps = @ + 1])
                /\ params' = params + 1
                /\ params_nan' = (params_nan \/ loss = "nan")
                /\ UNCHANGED failure
    /\ UNCHANGED <<envScript, envPos, envEpisode, envResets, envSteps,
                   policy_mode, printed>>

(* lines 103-104: the fragment is merged into the running accumulators *)
Extended(f) ==
    [f EXCEPT !.total_rewards = @ \o f.rewards,
              !.total_actions = @ \o f.actions]

(* A completion that forgets to append the episode's actions *)
Completed_NoActions(f) ==
    [f EXCEPT !.reward_history = Append(@, SumSeq(f.total_rewards)),
              !.total_rewards = <<>>,
              !.total_actions = <<>>,
              !.completed_episodes_counter = @ + 1]

(* A completion that forgets to count the episode *)
Completed_NoCount(f) ==
    [f EXCEPT !.reward_history = Append(@, SumSeq(f.total_rewards)),
              !.action_history = Append(@, f.total_actions),
              !.total_rewards = <<>>,
              !.total_actions = <<>>]

(* lines 107-112: a completed episode is appended and the accumulators reset *)
Completed(f) ==
    [f EXCEPT !.reward_history = Append(@, SumSeq(f.total_rewards)),
              !.action_history = Append(@, f.total_actions),
              !.total_rewards = <<>>,
              !.total_actions = <<>>,
              !.completed_episodes_counter = @ + 1]

(* line 114: the condition of the progress report *)
ShouldPrint(f) ==
    f.done /\ f.print_res /\ (f.completed_episodes_counter - 1) % f.print_freq = 0

(* An evaluation on the cadence of the progress report (line 114) *)
ShouldEvaluate_LikePrint(f) ==
    f.done /\ f.early_stopping /\ (f.completed_episodes_counter - 1) % f.early_stopping_freq = 0

(* line 121: the condition of an early-stopping evaluation *)
ShouldEvaluate(f) ==
    f.done /\ f.early_stopping /\ f.completed_episodes_counter % f.early_stopping_freq = 0

(* lines 103-121: merge the fragment, complete the episode if done, report,  *)
(* then either start an evaluation or go to the next outer iteration        *)
Accumulate ==
    /\ Running /\ Top.pc = "accumulate"
    /\ LET g == Extended(Top)
           h == IF g.done THEN Completed(g) ELSE g
           e == Top.env
       IN  /\ stack' = SetTop(IF ShouldEvaluate(h)
                              THEN [h EXCEPT !.pc = "evaluate"]
                              ELSE [h EXCEPT !.pc = "outer", !.n = @ + 1])
           /\ envPos' = IF g.done THEN [envPos EXCEPT ![e] = 0] ELSE envPos
           /\ envResets' = IF g.done THEN [envResets EXCEPT ![e] = @ + 1] ELSE envResets
           /\ printed' = IF ShouldPrint(h) THEN printed + 1 ELSE printed
    /\ UNCHANGED <<envScript, envEpisode, envSteps, policy_mode, params, params_nan, failure>>

(* line 122: the nested call reinforce(policy_network, val_env, ..., train=False, *)
(* num_episodes=1, ...) executes its lines 57-79                                 *)
EvaluateCall ==
    /\ Running /\ Top.pc = "evaluate"
    /\ LET a == EvalArgs(Top)
           callee == [NewFrame(a) EXCEPT !.params0 = params]
       IN  /\ stack' = Append(SetTop([Top EXCEPT !.pc = "evaluating",
                                                 !.evaluations = @ + 1]), callee)
           /\ envPos' = [envPos EXCEPT ![a.env] = 0]
           /\ envResets' = [envResets EXCEPT ![a.env] = @ + 2]
           /\ policy_mode' = ModeFor(a.train)
    /\ UNCHANGED <<envScript, envEpisode, envSteps, params, params_nan, printed, failure>>

(* line 127: the outer loop is exhausted; the invocation returns its histories. *)
(* The outer call stays on the stack as "returned"; a nested call hands its     *)
(* reward_history to line 122 of its caller.                                    *)
ReturnExhausted ==
    /\ Running /\ Top.pc = "outer"
    /\ Top.n >= Top.num_episodes
    /\ stack' = IF Depth = 1
                THEN SetTop([Top EXCEPT !.pc = "returned"])
                ELSE [SubSeq(stack, 1, Depth - 1) EXCEPT
                         ![Depth - 1] = [@ EXCEPT !.val_reward = Top.reward_history,
                                                  !.pc = "compare"]]
    /\ UNCHANGED <<envScript, envPos, envEpisode, envResets, envSteps,
                   policy_mode, params, params_nan, printed, failure>>

(* An early-stopping test that stops on a higher validation reward *)
ShouldStop_Greater(validation_rewards, val_reward) ==
    Len(validation_rewards) > 0 /\ val_reward[1] > Last(validation_rewards)[1]

(* An early-stopping test that also stops on an equal validation reward *)
ShouldStop_OrEqual(validation_rewards, val_reward) ==
    Len(validation_rewards) > 0 /\ val_reward[1] <= Last(validation_rewards)[1]

(* line 123: the early-stopping test *)
ShouldStop(validation_rewards, val_reward) ==
    Len(validation_rewards) > 0 /\ val_reward[1] < Last(validation_rewards)[1]

(* lines 123-125: stop (return at line 124) or record the validation reward *)
Compare ==
    /\ Running /\ Top.pc = "compare"
    /\ IF Len(Top.validation_rewards) > 0 /\ Len(Top.val_reward) = 0
       THEN /\ failure' = "IndexError"
            /\ UNCHANGED stack
       ELSE /\ stack' = SetTop(IF ShouldStop(Top.validation_rewards, Top.val_reward)
                               THEN [Top EXCEPT !.stopped_early = TRUE, !.pc = "returned"]
                               ELSE [Top EXCEPT !.validation_rewards = Append(@, Top.val_reward),
                                                !.pc = "outer", !.n = @ + 1])
            /\ UNCHANGED failure
    /\ UNCHANGED <<envScript, envPos, envEpisode, envResets, envSteps,
                   policy_mode, params, params_nan, printed>>

Next ==
    \/ OuterIter
    \/ InnerStep
    \/ InnerExhausted
    \/ TrainStep
    \/ Accumulate
    \/ EvaluateCall
    \/ ReturnExhausted
    \/ Compare

Spec == Init /\ [][Next]_vars

(* reinforce() is sequential code: whenever it has a next step it takes it *)
SpecFair == Spec /\ WF_vars(Next)

(* The same program started from the configurations that vary the exploration *)
(* schedule: every initial rate, minimum and decay factor, on an environment  *)
(* whose rewards are all 1.                                                   *)
ConfigsExpl ==
    [ env : {"env"},
      val_env : {"val_env"},
      train : BOOLEAN,
      exploration_rate : ExplorationRates,
      exploration_min : ExplorationMins,
      exploration_decay : Decays,
      num_episodes : {MaxEpisodes},
      max_episode_length : 1..MaxLen,
      print_res : {TRUE},
      print_freq : {DefaultFreq},
      early_stopping : BOOLEAN,
      early_stopping_freq : {1} ]

InitExpl ==
    \E a \in ConfigsExpl, k \in 1..MaxK :
        InitWith(a, [j \in 1..(k - 1) |-> 1], [j \in 1..MaxEvals |-> <<1>>])

SpecExpl == InitExpl /\ [][Next]_vars

-----------------------------------------------------------------------------
(* Properties *)

Outer == stack[1]

Frames == {stack[d] : d \in 1..Depth}

(* env's episode: done on step EnvK, rewards EnvRewards on the steps before *)
EnvRewards == envScript["env"][1]

EnvK == Len(EnvRewards) + 1

Returned == Outer.pc = "returned"

NonIncreasing(s) == \A j, k \in 1..Len(s) : j <= k => s[j] >= s[k]

(* The reward of the j-th validation episode *)
ValReward(j) == SumSeq(envScript["val_env"][Min(j, Len(envScript["val_env"]))])

(* C1: with num_episodes=1 and max_episode_length >= k, on an environment   *)
(* that is done on its k-th step, reinforce returns (raising nothing) a      *)
(* reward_history with the single entry r_1+...+r_{k-1} and an               *)
(* action_history whose single entry has length k-1, for train true or false *)
C1_Original ==
    (Outer.num_episodes = 1 /\ Outer.max_episode_length >= EnvK) =>
        /\ failure = "none"
        /\ Returned =>
            /\ Outer.reward_history = <<SumSeq(EnvRewards)>>
            /\ Len(Outer.action_history) = 1
            /\ Len(Outer.action_history[1]) = EnvK - 1

(* C2: with max_episode_length < k, a call with num_episodes=1 returns empty *)
(* histories; over more outer iterations nothing is appended and env is not  *)
(* reset until the k-th step is taken, and the iteration that takes it       *)
(* appends exactly one episode with the full reward sum and k-1 actions      *)
C2_Original ==
    Outer.max_episode_length < EnvK =>
        /\ failure = "none"
        /\ (Returned /\ Outer.num_episodes = 1) =>
            (Outer.reward_history = <<>> /\ Outer.action_history = <<>>)
        /\ envSteps["env"] < EnvK =>
            (Outer.reward_history = <<>> /\ envResets["env"] = 2)
        /\ (envSteps["env"] = EnvK /\ Outer.pc \notin {"inner", "after", "accumulate"}) =>
            /\ Outer.reward_history = <<SumSeq(EnvRewards)>>
            /\ Len(Outer.action_history) = 1
            /\ Len(Outer.action_history[1]) = EnvK - 1

(* C3: when training and the iteration's trajectory is empty, the step after *)
(* the rollout raises nothing, performs no optimization step and goes on to  *)
(* the accumulation of the fragment                                          *)
C3_Original ==
    [][(Running /\ Top.pc = "after" /\ Top.train /\ Top.rewards = <<>>) =>
          /\ failure' = "none"
          /\ params' = params
          /\ stack'[Depth].pc = "accumulate"]_vars

(* C4, as stated: in a call with train=False every rate passed to the action *)
(* selector equals the configured exploration_min                            *)
C4_Original ==
    \A f \in Frames : ~f.train =>
        \A j \in 1..Len(f.rates) : f.rates[j] = f.arg_exploration_min

(* C4, amended: in a call with train=False every rate passed to the action   *)
(* selector is 0, whatever the configured initial rate and exploration_min   *)
C4_EvalRateIsZero ==
    \A f \in Frames : ~f.train =>
        \A j \in 1..Len(f.rates) : f.rates[j] = 0

C4_Witness ==
    /\ ~Outer.train
    /\ Outer.arg_exploration_min > 0
    /\ Outer.arg_exploration_rate > Outer.arg_exploration_min
    /\ Len(Outer.rates) >= 2

(* C5: a call with train=False performs no optimization step, and the policy *)
(* parameters are at every state of the call what they were when it started; *)
(* this covers the nested early-stopping evaluation                          *)
C5_NoOptimizeWhenNotTraining ==
    \A d \in 1..Depth : ~stack[d].train =>
        /\ stack[d].opt_steps = 0
        /\ d = Depth => params = stack[d].params0

C5_Witness ==
    /\ Depth = 2
    /\ ~Top.train
    /\ Top.n = 1
    /\ Len(Top.reward_history) = 1
    /\ params > 0

(* C6, as stated: the rates passed to the action selector in one call are    *)
(* non-increasing and none is below exploration_min                          *)
C6_Original ==
    \A f \in Frames :
        /\ NonIncreasing(f.rates)
        /\ \A j \in 1..Len(f.rates) : f.rates[j] >= f.arg_exploration_min

(* C6, amended: the rates passed in one call are non-increasing and none is  *)
(* below the minimum in force (exploration_min when training, 0 otherwise),  *)
(* provided a training call's initial rate is at least its exploration_min   *)
C6_RatesNonIncreasing ==
    \A f \in Frames :
        (f.train => f.arg_exploration_rate >= f.arg_exploration_min) =>
            /\ NonIncreasing(f.rates)
            /\ \A j \in 1..Len(f.rates) : f.rates[j] >= f.exploration_min

C6_Witness ==
    /\ Outer.train
    /\ Outer.arg_exploration_min > 0
    /\ Outer.arg_exploration_rate > Outer.arg_exploration_min
    /\ Outer.exploration_decay = <<1, 2>>
    /\ Len(Outer.rates) >= 3
    /\ Len(Outer.reward_history) >= 1
    /\ Outer.rates[1] > Outer.rates[2]
    /\ Outer.rates[2] = Outer.exploration_min

(* C7, as stated: the current exploration rate of a call is always in        *)
(* [exploration_min, initial exploration rate]                               *)
C7_Original ==
    \A f \in Frames :
        /\ f.arg_exploration_min <= f.exploration_rate
        /\ f.exploration_rate <= f.arg_exploration_rate

(* C7, amended: in a training call whose initial rate is at least its        *)
(* exploration_min the current rate is always in [exploration_min, initial   *)
(* rate]; in a call with train=False the current rate is always 0            *)
C7_RateInRange ==
    \A f \in Frames :
        IF f.train
        THEN f.arg_exploration_rate >= f.arg_exploration_min =>
                /\ f.arg_exploration_min <= f.exploration_rate
                /\ f.exploration_rate <= f.arg_exploration_rate
        ELSE f.exploration_rate = 0

C7_Witness ==
    /\ Outer.train
    /\ Outer.arg_exploration_rate > Outer.arg_exploration_min
    /\ Outer.exploration_rate < Outer.arg_exploration_rate
    /\ Outer.exploration_rate = Outer.arg_exploration_min
    /\ Outer.completed_episodes_counter >= 1
    /\ Returned

(* C8: reward_history and action_history of a call have the same length at   *)
(* every state, in particular at the end of every outer iteration and at     *)
(* both return points                                                        *)
C8_HistoriesSameLength ==
    \A f \in Frames : Len(f.reward_history) = Len(f.action_history)

C8_Witness ==
    /\ Returned
    /\ Outer.stopped_early
    /\ Len(Outer.reward_history) = 2
    /\ Len(Outer.action_history) = 2
    /\ Len(Outer.action_history[2]) >= 1

(* The case of C9: early stopping at every completed episode, every outer    *)
(* iteration completing an episode, and a validation environment whose       *)
(* second episode, and every episode evaluated so far, has a strictly lower  *)
(* reward than the one before it                                             *)
C9_Case ==
    /\ Outer.early_stopping
    /\ Outer.early_stopping_freq = 1
    /\ Outer.max_episode_length >= EnvK
    /\ ValReward(2) < ValReward(1)
    /\ \A j \in 2..Outer.evaluations : ValReward(j) < ValReward(j - 1)

(* C9, as stated: in that case reinforce returns before running all          *)
(* num_episodes outer iterations, with fewer than num_episodes entries       *)
C9_Original ==
    (C9_Case /\ Returned) =>
        /\ Outer.stopped_early
        /\ Outer.n + 1 < Outer.num_episodes
        /\ Len(Outer.reward_history) < Outer.num_episodes

(* C9, amended: in that case a call that returns does so at its second       *)
(* evaluation: with num_episodes >= 3 it stops in its second outer iteration *)
(* with exactly 2 entries; with num_episodes <= 2 the returned               *)
(* reward_history has num_episodes entries; and no outer iteration is run    *)
(* after the second evaluation                                               *)
C9_StopsAtSecondEvaluation ==
    /\ (C9_Case /\ Returned) =>
            IF Outer.num_episodes >= 3
            THEN /\ Outer.stopped_early
                 /\ Outer.n = 1
                 /\ Len(Outer.reward_history) = 2
            ELSE Len(Outer.reward_history) = Outer.num_episodes
    /\ (C9_Case /\ Outer.evaluations = 2) =>
            Outer.pc \in {"evaluating", "compare", "returned"}

C9_Witness ==
    /\ C9_Case
    /\ Returned
    /\ Outer.train
    /\ Outer.num_episodes >= 3
    /\ Outer.stopped_early
    /\ Outer.evaluations = 2

(* C10: an evaluation makes reinforce return at once exactly when an earlier *)
(* validation reward is recorded and the new one is strictly lower than the  *)
(* most recent one; otherwise the new reward is appended to the validation   *)
(* history and the loop goes on                                              *)
C10_StopIffLowerThanLast ==
    [][(Running /\ Depth = 1 /\ Outer.pc = "compare") =>
          LET prior == Outer.validation_rewards
              new == Outer.val_reward
              stop == Len(prior) > 0 /\ new[1] < prior[Len(prior)][1]
          IN  /\ stack'[1].pc = "returned" <=> stop
              /\ ~stop => /\ stack'[1].validation_rewards = Append(prior, new)
                          /\ stack'[1].pc = "outer"
                          /\ stack'[1].n = Outer.n + 1
              /\ stop => /\ stack'[1].reward_history = Outer.reward_history
                         /\ stack'[1].action_history = Outer.action_history]_vars

C10_Witness ==
    /\ Outer.pc = "outer"
    /\ Len(Outer.validation_rewards) = 2
    /\ Outer.validation_rewards[1] = Outer.validation_rewards[2]
    /\ Outer.evaluations = 2

(* The outer call is at the end of an outer iteration, or has returned *)
IterationEnded == Outer.pc \in {"outer", "evaluate", "evaluating", "compare", "returned"}

(* Outer iterations of the outer call whose rollout has been run: n counts   *)
(* the iterations left behind, and the iteration in progress is one more     *)
IterationsRun ==
    Outer.n + (IF Outer.pc \in {"evaluate", "evaluating", "compare"} \/ Outer.stopped_early
               THEN 1 ELSE 0)

(* C11: the histories cover the completed episodes only: in every call       *)
(* len(reward_history) is completed_episodes_counter; at the end of every    *)
(* outer iteration of the outer call that is the number of rollouts that     *)
(* ended with done=True, at most the number of outer iterations run, every   *)
(* entry is a whole episode of env, and a trailing fragment stays in the     *)
(* accumulators, outside the histories                                       *)
C11_HistoriesAreCompletedEpisodes ==
    /\ \A f \in Frames : Len(f.reward_history) = f.completed_episodes_counter
    /\ IterationEnded =>
        /\ Outer.completed_episodes_counter = envEpisode["env"]
        /\ Outer.completed_episodes_counter <= IterationsRun
        /\ \A j \in 1..Len(Outer.reward_history) :
              Outer.reward_history[j] = SumSeq(EnvRewards)
        /\ \A j \in 1..Len(Outer.action_history) :
              Len(Outer.action_history[j]) = EnvK - 1
        /\ Len(Outer.total_actions) = envPos["env"]
        /\ Len(Outer.total_rewards) = envPos["env"]

C11_Witness ==
    /\ Returned
    /\ Outer.train
    /\ Len(Outer.reward_history) = 1
    /\ Outer.completed_episodes_counter < Outer.n
    /\ Len(Outer.total_actions) >= 1
    /\ Outer.reward_history[1] > SumSeq(Outer.total_rewards)

(* C12: computing the loss of a trajectory with exactly one recorded reward  *)
(* raises nothing and yields a finite loss, so the optimization step that    *)
(* follows leaves the parameters finite                                      *)
C12_Original ==
    [][(Running /\ Top.pc = "after" /\ Top.train /\ Len(Top.rewards) = 1) =>
          /\ failure' = "none"
          /\ get_policy_loss(Top.rewards, Top.log_probs) = "finite"
          /\ params_nan' = params_nan]_vars

(* C13: with early stopping enabled the evaluations started so far are       *)
(* floor(completed_episodes_counter / early_stopping_freq), the one due at   *)
(* the end of the iteration in progress included, and none is started        *)
(* without early stopping; an evaluation is a nested call with train=False   *)
(* and num_episodes=1 on val_env, in progress exactly while the outer call   *)
(* waits at line 122; it never steps or resets env, and the outer call never *)
(* steps val_env                                                             *)
C13_EvaluationsAtMultiples ==
    [][LET o == stack'[1]
           due == IF o.early_stopping
                  THEN o.completed_episodes_counter \div o.early_stopping_freq
                  ELSE 0
       IN  /\ o.evaluations = due - (IF o.pc = "evaluate" THEN 1 ELSE 0)
           /\ o.pc = "evaluate" =>
                 /\ o.done
                 /\ o.completed_episodes_counter > 0
                 /\ o.completed_episodes_counter % o.early_stopping_freq = 0
           /\ Len(stack') = 2 <=> o.pc = "evaluating"
           /\ Len(stack') = 2 =>
                 /\ ~stack'[2].train
                 /\ stack'[2].num_episodes = 1
                 /\ stack'[2].env = "val_env"
           /\ Depth = 2 =>
                 /\ envSteps'["env"] = envSteps["env"]
                 /\ envPos'["env"] = envPos["env"]
                 /\ envResets'["env"] = envResets["env"]
           /\ Depth = 1 => envSteps'["val_env"] = envSteps["val_env"]]_vars

C13_Witness ==
    /\ Returned
    /\ Outer.early_stopping
    /\ Outer.early_stopping_freq = 2
    /\ Outer.completed_episodes_counter = 3
    /\ Outer.evaluations = 1
    /\ envSteps["val_env"] > 0

(* C14: in every outer iteration of every call the lists actions, rewards    *)
(* and log_probs have the same length, which is the number of env.step calls *)
(* of the iteration that returned done=False (the step that signals done is  *)
(* not recorded) and is at most max_episode_length                           *)
C14_TerminalStepNotRecorded ==
    \A f \in Frames :
        LET terminal == IF f.pc # "inner" /\ f.done THEN 1 ELSE 0
        IN  /\ Len(f.actions) = f.iter_steps - terminal
            /\ Len(f.rewards) = Len(f.actions)
            /\ Len(f.log_probs) = Len(f.actions)
            /\ Len(f.actions) <= f.max_episode_length

C14_Witness ==
    /\ Outer.pc = "after"
    /\ Outer.done
    /\ Outer.n >= 1
    /\ Outer.iter_steps = 2
    /\ Len(Outer.actions) = 1
    /\ Len(Outer.total_actions) = 2

(* The rate of invocation f after one decay: max(rate * decay, minimum) *)
DecayedOnce(f) ==
    Max((f.exploration_rate * f.exploration_decay[1]) \div f.exploration_decay[2],
        f.exploration_min)

(* C15, as stated: in a training call every env.step call, the one that      *)
(* returns done=True included, decays the exploration rate once, and no      *)
(* other step of the call changes the rate                                   *)
C15_Original ==
    [][\A d \in 1..Depth : (d <= Len(stack') /\ stack[d].train) =>
          LET f == stack[d]
              g == stack'[d]
              stepped == envSteps'[f.env] = envSteps[f.env] + 1
          IN  g.exploration_rate = IF stepped THEN DecayedOnce(f)
                                   ELSE f.exploration_rate]_vars

(* C15, amended: in a training call every env.step call that returns         *)
(* done=False decays the exploration rate once; the call that returns        *)
(* done=True leaves it unchanged, and so does every other step of the call,  *)
(* the completion of an episode included                                     *)
C15_DecayPerRecordedStep ==
    [][\A d \in 1..Depth : (d <= Len(stack') /\ stack[d].train) =>
          LET f == stack[d]
              g == stack'[d]
              stepped == envSteps'[f.env] = envSteps[f.env] + 1
              ended == envEpisode'[f.env] = envEpisode[f.env] + 1
          IN  g.exploration_rate = IF stepped /\ ~ended THEN DecayedOnce(f)
                                   ELSE f.exploration_rate]_vars

C15_Witness ==
    /\ Outer.train
    /\ Outer.exploration_decay = <<3, 4>>
    /\ Outer.completed_episodes_counter >= 1
    /\ Outer.pc = "inner"
    /\ Outer.i = 1
    /\ Len(Outer.rates) >= 4
    /\ Outer.rates[Len(Outer.rates)] > Outer.exploration_rate
    /\ Outer.rates[Len(Outer.rates)] = Outer.rates[Len(Outer.rates) - 1]

(* The outer call has ended: it returned, or an exception left it *)
Ended == Returned \/ failure # "none"

C16_Bounds ==
    /\ Depth <= 2
    /\ \A f \in Frames :
          /\ f.n <= f.num_episodes
          /\ f.i <= f.max_episode_length
    /\ IterationsRun <= Outer.num_episodes
    /\ envSteps["env"] <= Outer.num_episodes * Outer.max_episode_length
    /\ Depth = 2 =>
          /\ ~Top.early_stopping
          /\ Top.evaluations = 0
          /\ Top.num_episodes = 1
    /\ Returned =>
          IF Outer.stopped_early
          THEN Outer.n < Outer.num_episodes
          ELSE Outer.n = Outer.num_episodes

C17_Original ==
    [][params' # params => (Top.train /\ policy_mode = "train")]_vars

(* C18: the hidden state passed to the action selector is None on the first  *)
(* act call of every outer iteration, and on every later call of the         *)
(* iteration it is the hidden state the previous act call returned           *)
C18_HiddenStateThreaded ==
    [][(Len(stack') = Depth /\ Len(stack'[Depth].hx_passed) = Len(Top.hx_passed) + 1) =>
          LET passed == Last(stack'[Depth].hx_passed)
              previous == Len(Top.rates)
          IN  /\ passed = IF Top.iter_steps = 0 THEN None ELSE previous
              /\ stack'[Depth].hx = previous + 1]_vars

C18_Witness ==
    /\ Outer.pc = "after"
    /\ Outer.done
    /\ Outer.n = 1
    /\ Len(Outer.total_actions) = 2
    /\ Outer.hx_passed = <<None, 1, None, 3>>

=============================================================================
